---- MODULE Spec2Model ----
(***************************************************************************)
(* Groovi browser client: the raw PCM capture path (useAudioCapture), the  *)
(* voice WebSocket hook (useVoiceWebSocket) and the interaction ("orb")    *)
(* state kept by App.                                                       *)
(*                                                                         *)
(* Specifications                                                          *)
(*   SpecResample  downsample() applied to one buffer drawn by Init        *)
(*   SpecAcc       the port.onmessage -> downsample -> processSamples path *)
(*                 on a freshly reset accumulator                          *)
(*   SpecVoice     useVoiceWebSocket driven by an arbitrary caller and by  *)
(*                 the events of its sockets                               *)
(*   SpecApp       App with its voice hook: user actions, effects, the     *)
(*                 1.5 s timeout and socket events                         *)
(***************************************************************************)
EXTENDS Integers, Sequences, FiniteSets, TLC

(***************************************************************************)
(* Program constants                                                       *)
(***************************************************************************)
TARGET_SAMPLE_RATE == 16000

VAD_CHUNK_SIZE == 512

\* AudioCaptureProcessor.bufferSize: samples per message posted by the worklet
WorkletBufferSize == 4096

\* new AudioContext({ sampleRate: 48000 })
ContextSampleRate == 48000

(***************************************************************************)
(* Bounds                                                                  *)
(***************************************************************************)
\* buffers of 0..MaxSmallLen samples are all tried by the resampler harness
MaxSmallLen == 8

\* processSamples calls per behaviour of SpecAcc
MaxCalls == 3

\* WebSocket objects created per behaviour
MaxSockets == 3

\* sendAudio / sendMessage calls per behaviour
MaxSends == 2

\* startCapture calls that get past the isCapturing guard
MaxStarts == 2

\* sockets created before the voice toggle stops switching voice mode on
MaxAppSockets == 2

\* Port messages of one worklet node the main thread has not handled yet
MaxInFlight == 1

\* Source rates handed to downsample (event.data.sampleRate).  All >= 16000.
SourceRates == {16000, 22050, 33075, 37800, 44100, 48000, 96000}

\* SessionEvent kinds handled by App.onMessage, and one it does not know
ServerEvents == {"loading", "ready", "wake_word_detected", "listening",
                 "transcript", "songs", "songs_mood", "response", "interrupted",
                 "voice_mode_stop", "idle_timeout", "unknown"}

\* Inbound WebSocket payloads
Payloads == ServerEvents \cup {"binary", "malformed"}

\* Server events tried on the voice-mode wiring: the two that change voiceReady
WiringPayloads == {"loading", "ready"}

\* Payloads tried on the hook alone, which does not look into a parsed event
HookPayloads == {"binary", "malformed", "response", "unknown"}

\* Buffer lengths tried by the resampler harness
BufferLens == (0..MaxSmallLen) \cup {441, 946, 3969, WorkletBufferSize}

\* Batch lengths handed straight to processSamples
BatchLens == {0, 1, 511, 513, 1024}

\* Raw buffer lengths arriving on the worklet port
PortLens == {WorkletBufferSize}

\* Rates arriving on the worklet port
PortRates == {16000, 44100, ContextSampleRate}

(***************************************************************************)
(* Int16Array element conversion and out-of-range reads                    *)
(***************************************************************************)
ToInt16(x) == ((x + 32768) % 65536) - 32768

\* Samples start+1 .. start+n of the microphone stream; each sample carries
\* its stream position as its value, so any loss, duplication or reordering
\* downstream is visible.
MicSamples(start, n) == [j \in 1..n |-> ToInt16(start + j)]

\* buffer[sourceIndex] stored into an Int16Array: an out-of-range read is
\* undefined and is stored as 0.
ReadSample(buffer, sourceIndex) ==
    IF sourceIndex < Len(buffer) THEN buffer[sourceIndex + 1] ELSE 0

(***************************************************************************)
(* IEEE-754 double arithmetic of downsample.                               *)
(*                                                                         *)
(* ratio = fromRate / 16000 is a double.  16000 = 2^7 * 125, so with       *)
(* a = RatioExponent (2^a <= fromRate/16000 < 2^(a+1)) and k = 45 - a the  *)
(* 53-bit significand is M = RN(fromRate * 2^k / 125) and                  *)
(*     ratio = (fromRate - r / 2^k) / 16000,                               *)
(* where r = RatioErr is the residue of fromRate * 2^k modulo 125 taken    *)
(* in -62..62 (125 is odd: no ties).  r = 0 iff the quotient is exact.     *)
(*                                                                         *)
(* Math.floor(i * ratio) and Math.floor(n / ratio) round the exact         *)
(* product/quotient to a double first.  The relative error of ratio is     *)
(* below 2^-53, so the rounded value can differ from the exact integer     *)
(* quotient only when the real-number result is an integer q and the       *)
(* double result falls short of it: then the result is q when the          *)
(* shortfall q*|r|/(fromRate*2^k) is at most half the spacing of doubles   *)
(* just below q (round-to-nearest-even goes to q), and q-1 otherwise.      *)
(***************************************************************************)
RECURSIVE Pow2(_)
Pow2(n) == IF n = 0 THEN 1 ELSE 2 * Pow2(n - 1)

RECURSIVE Pow2Mod125(_)
Pow2Mod125(n) == IF n = 0 THEN 1 ELSE (2 * Pow2Mod125(n - 1)) % 125

\* floor(log2(q)) for q >= 1
Log2Floor(q) == CHOOSE b \in 0..30 : Pow2(b) <= q /\ (b = 30 \/ q < Pow2(b + 1))

\* binary exponent of fromRate / TARGET_SAMPLE_RATE  (fromRate >= 16000)
RatioExponent(fromRate) ==
    CHOOSE a \in 0..16 : Pow2(a) * TARGET_SAMPLE_RATE <= fromRate
                         /\ fromRate < Pow2(a + 1) * TARGET_SAMPLE_RATE

\* signed rounding residue r of the double fromRate / 16000 (see above)
RatioErr(fromRate) ==
    LET m == ((fromRate % 125) * Pow2Mod125(45 - RatioExponent(fromRate))) % 125
    IN  IF m <= 62 THEN m ELSE m - 125

\* TRUE iff the double nearest to q * (1 - r / (fromRate * 2^k)), r > 0,
\* is q itself  (q >= 1)
RoundsToInteger(q, r, fromRate) ==
    LET b  == Log2Floor(q)
        sh == RatioExponent(fromRate) + 8 + (IF q = Pow2(b) THEN 1 ELSE 0)
    IN  IF b >= sh THEN q * r <= fromRate * Pow2(b - sh)
                   ELSE q * r * Pow2(sh - b) <= fromRate

\* Math.floor(i * ratio)
FloorTimesRatio(i, fromRate) ==
    LET q   == (i * fromRate) \div TARGET_SAMPLE_RATE
        rem == (i * fromRate) % TARGET_SAMPLE_RATE
        r   == RatioErr(fromRate)
    IN  IF rem # 0 \/ r <= 0 \/ q = 0 THEN q
        ELSE IF RoundsToInteger(q, r, fromRate) THEN q ELSE q - 1

\* Math.floor(n / ratio)
FloorDivRatio(n, fromRate) ==
    LET q   == (n * TARGET_SAMPLE_RATE) \div fromRate
        rem == (n * TARGET_SAMPLE_RATE) % fromRate
        r   == RatioErr(fromRate)
    IN  IF rem # 0 \/ r >= 0 \/ q = 0 THEN q
        ELSE IF RoundsToInteger(q, -r, fromRate) THEN q ELSE q - 1

\* Math.ceil in place of Math.floor (a plausible slip in newLength)
CeilDivRatio(n, fromRate) ==
    IF (n * TARGET_SAMPLE_RATE) % fromRate = 0
    THEN FloorDivRatio(n, fromRate)
    ELSE FloorDivRatio(n, fromRate) + 1

\* const newLength = Math.floor(buffer.length / ratio)
NewLength(n, fromRate) == FloorDivRatio(n, fromRate)

\* const sourceIndex = Math.floor(i * ratio)
SourceIndex(i, fromRate) == FloorTimesRatio(i, fromRate)

\* the buffer passed on at its native rate
downsamplePassThrough(buffer, fromRate) == buffer

downsample(buffer, fromRate) ==
    IF fromRate = TARGET_SAMPLE_RATE THEN buffer
    ELSE [i \in 1..NewLength(Len(buffer), fromRate) |->
              ReadSample(buffer, SourceIndex(i - 1, fromRate))]

(***************************************************************************)
(* processSamples: accumulate and emit VAD-sized chunks                    *)
(***************************************************************************)
\* combined.set(samples, accumulator.length) written the other way round
CombineSwapped(accumulator, samples) == samples \o accumulator

\* combined = accumulator ++ samples
Combine(accumulator, samples) == accumulator \o samples

\* loop guard written with < instead of <=
ChunkFitsStrict(offset, length) == offset + VAD_CHUNK_SIZE < length

\* while (offset + VAD_CHUNK_SIZE <= combined.length)
ChunkFits(offset, length) == offset + VAD_CHUNK_SIZE <= length

\* combined.slice(begin, end): elements begin .. end-1 (0-based)
Slice(s, begin, end) == SubSeq(s, begin + 1, end)

\* chunk.buffer of an Int16Array: two bytes per sample
ByteLength(chunk) == 2 * Len(chunk)

\* the emit loop with the remainder handed over as a last, short chunk
RECURSIVE EmitLoopFlushing(_, _, _)
EmitLoopFlushing(combined, offset, chunks) ==
    IF ChunkFits(offset, Len(combined))
    THEN EmitLoopFlushing(combined, offset + VAD_CHUNK_SIZE,
                          Append(chunks, Slice(combined, offset, offset + VAD_CHUNK_SIZE)))
    ELSE IF offset < Len(combined)
         THEN [chunks |-> Append(chunks, Slice(combined, offset, Len(combined))),
               offset |-> Len(combined)]
         ELSE [chunks |-> chunks, offset |-> offset]

\* The emit loop: the chunks handed to onAudioChunk, in order, and the final
\* offset.
RECURSIVE EmitLoop(_, _, _)
EmitLoop(combined, offset, chunks) ==
    IF ChunkFits(offset, Len(combined))
    THEN EmitLoop(combined, offset + VAD_CHUNK_SIZE,
                  Append(chunks, Slice(combined, offset, offset + VAD_CHUNK_SIZE)))
    ELSE [chunks |-> chunks, offset |-> offset]

\* Result of processSamples(samples) on accumulator acc: the chunks delivered
\* and the new accumulator combined.slice(offset).
processSamples(acc, samples) ==
    LET combined == Combine(acc, samples)
        loop     == EmitLoop(combined, 0, <<>>)
    IN  [chunks |-> loop.chunks,
         rest   |-> Slice(combined, loop.offset, Len(combined))]

(***************************************************************************)
(* State                                                                   *)
(***************************************************************************)
VARIABLES
    \* resampler harness
    dsBuffer,            \* the buffer passed to downsample
    dsRate,              \* the fromRate passed to downsample
    dsResult,            \* what downsample returned
    dsPc,                \* "call" before the call, "returned" after
    \* capture path
    sampleAccumulator,   \* sampleAccumulatorRef.current
    delivered,           \* chunks handed to onAudioChunk so far, in order
    fed,                 \* all batches handed to processSamples, concatenated
    micCount,            \* samples produced by the microphone so far
    calls,               \* processSamples calls so far
    lastPort,            \* the last port message and what downsample made of it
    \* useVoiceWebSocket
    sockets,             \* readyState of every WebSocket created, in creation order
    wsRef,               \* wsRef.current: index into sockets, 0 for null
    reconnectTimeoutRef, \* reconnectTimeoutRef.current: TRUE iff it holds a timer
    connectionState,     \* the state last passed to updateConnectionState
    dispatching,         \* socket whose error event fired and whose close event
                         \* follows in the same task, 0 for none
    transmitted,         \* payloads put on the wire: [sock, id, kind]
    dropped,             \* ids of payloads submitted while not connected
    sendCalls,           \* sendAudio / sendMessage calls so far (payload ids)
    raised,              \* TRUE iff the last send call threw
    lastOp,              \* the last hook operation or socket event: its name
                         \* and the socket concerned
    \* useAudioCapture
    starts,              \* one record per startCapture call that passed its
                         \* guard: where the call stands and the state of the
                         \* stream, context and worklet node it created
    streamRef,           \* streamRef.current: index into starts, 0 for null
    audioContextRef,     \* audioContextRef.current, likewise
    workletNodeRef,      \* workletNodeRef.current, likewise
    sourceRef,           \* sourceRef.current, likewise
    isCapturing,         \* the isCapturing state
    capOp,               \* the last capture operation or continuation, the
                         \* startCapture call concerned, and the last call
                         \* the caller made
    \* App
    app,                 \* React state of App as of the last render
    timer,               \* TRUE iff the 1.5 s complete -> idle timeout is armed
    pending,             \* effects whose dependencies changed in the last render
    micRequest,          \* AudioRecorder.startRecording awaits getUserMedia
    trigger,             \* what the last step was: "capture" for a failed
                         \* startCapture, "transport" for a socket error or
                         \* close event, "disconnect" for effects that called
                         \* disconnect(), "result" for a handler that stored a
                         \* new mood analysis, "none" otherwise
    scen8,               \* progress through the continuous-mode event scenario
    scen9                \* progress through the push-to-talk scenario

dsVars == <<dsBuffer, dsRate, dsResult, dsPc>>

accVars == <<sampleAccumulator, delivered, fed, micCount, calls, lastPort>>

wsVars == <<sockets, wsRef, reconnectTimeoutRef, connectionState, dispatching,
           transmitted, dropped, sendCalls, raised, lastOp>>

appVars == <<app, timer, pending, micRequest, trigger, scen8, scen9>>

capRefs == <<streamRef, audioContextRef, workletNodeRef, sourceRef>>

capVars == <<starts, capRefs, isCapturing, capOp>>

vars == <<dsVars, accVars, wsVars, appVars, capVars>>

NoPort == [rawLen |-> 0, sampleRate |-> 0, downLen |-> 0, accBefore |-> 0,
           chunksBefore |-> 0]

dsIdle ==
    /\ dsBuffer = <<>>
    /\ dsRate = TARGET_SAMPLE_RATE
    /\ dsResult = <<>>
    /\ dsPc = "returned"

accInit ==
    /\ sampleAccumulator = <<>>
    /\ delivered = <<>>
    /\ fed = <<>>
    /\ micCount = 0
    /\ calls = 0
    /\ lastPort = NoPort

\* no inbound message was dispatched by the operation
NoDispatch == [kind |-> "none", parsed |-> FALSE, cbs |-> <<>>, caught |-> FALSE]

NoOp == [name |-> "none", sock |-> 0, row |-> 0, again |-> FALSE,
         dispatch |-> NoDispatch]

wsInit ==
    /\ sockets = <<>>
    /\ wsRef = 0
    /\ reconnectTimeoutRef = FALSE
    /\ connectionState = "disconnected"
    /\ dispatching = 0
    /\ transmitted = <<>>
    /\ dropped = {}
    /\ sendCalls = 0
    /\ raised = FALSE
    /\ lastOp = NoOp

NoCapOp == [name |-> "none", inv |-> 0, call |-> "none"]

capInit ==
    /\ starts = <<>>
    /\ streamRef = 0
    /\ audioContextRef = 0
    /\ workletNodeRef = 0
    /\ sourceRef = 0
    /\ isCapturing = FALSE
    /\ capOp = NoCapOp

\* App after mount: every useState initial value; the mount effects have run
\* (orb idle, disconnect() on no socket, stopCapture() on no session)
appInit ==
    /\ app = [voiceMode |-> FALSE, voiceReady |-> FALSE, recordingState |-> "idle",
              orbState |-> "idle", isLoading |-> FALSE, moodAnalysis |-> FALSE]
    /\ timer = FALSE
    /\ pending = {}
    /\ micRequest = FALSE
    /\ trigger = "none"
    /\ scen8 = -1
    /\ scen9 = 0

(***************************************************************************)
(* SpecResample: downsample on one buffer                                  *)
(***************************************************************************)
InitResample ==
    /\ dsBuffer \in {MicSamples(0, n) : n \in BufferLens}
    /\ dsRate \in SourceRates
    /\ dsResult = <<>>
    /\ dsPc = "call"
    /\ accInit
    /\ wsInit
    /\ appInit
    /\ capInit

CallDownsample ==
    /\ dsPc = "call"
    /\ dsResult' = downsample(dsBuffer, dsRate)
    /\ dsPc' = "returned"
    /\ UNCHANGED <<dsBuffer, dsRate, accVars, wsVars, appVars, capVars>>

NextResample == CallDownsample

SpecResample == InitResample /\ [][NextResample]_vars

(***************************************************************************)
(* SpecAcc: the capture path on a freshly reset accumulator                *)
(***************************************************************************)
InitAcc == dsIdle /\ accInit /\ wsInit /\ appInit /\ capInit

\* processSamples(samples), with onAudioChunk recording each chunk
DoProcessSamples(samples) ==
    LET res == processSamples(sampleAccumulator, samples)
    IN  /\ delivered' = delivered \o res.chunks
        /\ sampleAccumulator' = res.rest
        /\ fed' = fed \o samples
        /\ calls' = calls + 1

\* processSamples called with the next n microphone samples
ProcessSamplesCall(n) ==
    /\ calls < MaxCalls
    /\ DoProcessSamples(MicSamples(micCount, n))
    /\ micCount' = micCount + n
    /\ lastPort' = NoPort
    /\ UNCHANGED <<dsVars, wsVars, appVars, capVars>>

\* workletNode.port.onmessage with event.data.type === 'audio'
PortMessage(n, sampleRate) ==
    /\ calls < MaxCalls
    /\ LET rawBuffer   == MicSamples(micCount, n)
           downsampled == downsample(rawBuffer, sampleRate)
       IN  /\ DoProcessSamples(downsampled)
           /\ lastPort' = [rawLen |-> n, sampleRate |-> sampleRate,
                           downLen |-> Len(downsampled),
                           accBefore |-> Len(sampleAccumulator),
                           chunksBefore |-> Len(delivered)]
    /\ micCount' = micCount + n
    /\ UNCHANGED <<dsVars, wsVars, appVars, capVars>>

NextAcc ==
    \/ \E n \in BatchLens : ProcessSamplesCall(n)
    \/ \E n \in PortLens, r \in PortRates : PortMessage(n, r)

SpecAcc == InitAcc /\ [][NextAcc]_vars

(***************************************************************************)
(* useAudioCapture: startCapture / stopCapture                             *)
(*                                                                         *)
(* startCapture is async: it runs up to await getUserMedia, resumes up to  *)
(* await addModule, and resumes to its end; other calls run in between.    *)
(* isReady is written by the hook and read by nothing, and is left out.    *)
(***************************************************************************)
CapOp(name, inv, call) == [name |-> name, inv |-> inv, call |-> call]

\* the locals of a startCapture call that is at await getUserMedia
NewStart == [pc |-> "mic", stream |-> "none", ctx |-> "none", node |-> "none",
             reported |-> FALSE, posted |-> 0]

\* catch (err): onError('Microphone access denied'); setIsCapturing(false)
Catch(inv) == [inv EXCEPT !.pc = "failed", !.reported = TRUE]

\* if (isCapturing) return
StartGuard == isCapturing

\* startCapture() up to await getUserMedia
HookStartCapture ==
    /\ IF StartGuard
       THEN /\ capOp' = CapOp("start", 0, "start")
            /\ UNCHANGED <<starts, sampleAccumulator>>
       ELSE /\ Len(starts) < MaxStarts
            /\ sampleAccumulator' = <<>>
            /\ starts' = Append(starts, NewStart)
            /\ capOp' = CapOp("start", Len(starts) + 1, "start")
    /\ UNCHANGED <<capRefs, isCapturing, delivered, fed, micCount, calls, lastPort>>

\* Call i resumes after await getUserMedia.  outcome: "denied" (the promise
\* rejected), "context" (new AudioContext threw), or "granted" (the call
\* reached await addModule)
MicSettled(i, outcome) ==
    /\ i \in 1..Len(starts)
    /\ starts[i].pc = "mic"
    /\ outcome \in {"denied", "context", "granted"}
    /\ CASE outcome = "denied" ->
              /\ starts' = [starts EXCEPT ![i] = Catch(@)]
              /\ isCapturing' = FALSE
              /\ UNCHANGED capRefs
         [] outcome = "context" ->
              /\ starts' = [starts EXCEPT ![i] = Catch([@ EXCEPT !.stream = "live"])]
              /\ streamRef' = i
              /\ isCapturing' = FALSE
              /\ UNCHANGED <<audioContextRef, workletNodeRef, sourceRef>>
         [] outcome = "granted" ->
              /\ starts' = [starts EXCEPT ![i] =
                               [@ EXCEPT !.pc = "module", !.stream = "live",
                                         !.ctx = "running"]]
              /\ streamRef' = i
              /\ audioContextRef' = i
              /\ UNCHANGED <<workletNodeRef, sourceRef, isCapturing>>
    /\ capOp' = CapOp(IF outcome = "granted" THEN "granted" ELSE "failed", i, capOp.call)
    /\ UNCHANGED accVars

\* Call i resumes after await addModule.  outcome: "module" (the promise
\* rejected), "node" (new AudioWorkletNode threw), "source"
\* (createMediaStreamSource or connect threw), or "started"
ModuleSettled(i, outcome) ==
    /\ i \in 1..Len(starts)
    /\ starts[i].pc = "module"
    /\ outcome \in {"module", "node", "source", "started"}
    /\ CASE outcome \in {"module", "node"} ->
              /\ starts' = [starts EXCEPT ![i] = Catch(@)]
              /\ isCapturing' = FALSE
              /\ UNCHANGED capRefs
         [] outcome = "source" ->
              /\ starts' = [starts EXCEPT ![i] = Catch([@ EXCEPT !.node = "disconnected"])]
              /\ workletNodeRef' = i
              /\ isCapturing' = FALSE
              /\ UNCHANGED <<streamRef, audioContextRef, sourceRef>>
         [] outcome = "started" ->
              /\ starts' = [starts EXCEPT ![i] =
                               [@ EXCEPT !.pc = "done", !.node = "connected"]]
              /\ workletNodeRef' = i
              /\ sourceRef' = i
              /\ isCapturing' = TRUE
              /\ UNCHANGED <<streamRef, audioContextRef>>
    /\ capOp' = CapOp(IF outcome = "started" THEN "started" ELSE "failed", i, capOp.call)
    /\ UNCHANGED accVars

\* stopCapture(): what each ref holds is released and the ref cleared
Released(inv, i) ==
    [inv EXCEPT !.node = IF i \in {sourceRef, workletNodeRef} /\ @ = "connected"
                         THEN "disconnected" ELSE @,
                !.ctx = IF i = audioContextRef THEN "closed" ELSE @,
                !.stream = IF i = streamRef THEN "stopped" ELSE @]

HookStopCapture ==
    /\ starts' = [i \in 1..Len(starts) |-> Released(starts[i], i)]
    /\ streamRef' = 0
    /\ audioContextRef' = 0
    /\ workletNodeRef' = 0
    /\ sourceRef' = 0
    /\ isCapturing' = FALSE
    /\ capOp' = CapOp("stop", 0, "stop")
    /\ UNCHANGED accVars

\* the microphone of call i feeds its worklet node
Feeding(i) ==
    /\ starts[i].stream = "live"
    /\ starts[i].ctx = "running"
    /\ starts[i].node = "connected"

\* downsample(rawBuffer, sampleRate) for the k-th full buffer a worklet node
\* posts at the context's rate, evaluated once for every k
PortBatches ==
    [k \in 0..MaxCalls |->
        downsample(MicSamples(k * WorkletBufferSize, WorkletBufferSize),
                   ContextSampleRate)]

\* AudioCaptureProcessor.process of the node of call i: the buffer is full and
\* is posted to the main thread (posted: the messages of this node not yet
\* handled there)
WorkletPost(i) ==
    /\ i \in 1..Len(starts)
    /\ Feeding(i)
    /\ starts[i].posted < MaxInFlight
    /\ starts' = [starts EXCEPT ![i].posted = @ + 1]
    /\ capOp' = CapOp("post", i, capOp.call)
    /\ UNCHANGED <<accVars, capRefs, isCapturing>>

\* workletNode.port.onmessage of call i: a full buffer its node posted at the
\* context's rate is handled
HookPortMessage(i) ==
    /\ i \in 1..Len(starts)
    /\ starts[i].posted > 0
    /\ calls < MaxCalls
    /\ LET downsampled == PortBatches[micCount \div WorkletBufferSize]
       IN  /\ DoProcessSamples(downsampled)
           /\ lastPort' = [rawLen |-> WorkletBufferSize,
                           sampleRate |-> ContextSampleRate,
                           downLen |-> Len(downsampled),
                           accBefore |-> Len(sampleAccumulator),
                           chunksBefore |-> Len(delivered)]
    /\ micCount' = micCount + WorkletBufferSize
    /\ starts' = [starts EXCEPT ![i].posted = @ - 1]
    /\ capOp' = CapOp("port", i, capOp.call)
    /\ UNCHANGED <<capRefs, isCapturing>>

(***************************************************************************)
(* SpecCapture: the capture hook under an arbitrary caller                 *)
(***************************************************************************)
InitCapture == dsIdle /\ accInit /\ wsInit /\ appInit /\ capInit

startCapture == HookStartCapture /\ UNCHANGED <<dsVars, wsVars, appVars>>

stopCapture == HookStopCapture /\ UNCHANGED <<dsVars, wsVars, appVars>>

getUserMediaSettled ==
    \E i \in 1..MaxStarts, outcome \in {"denied", "context", "granted"} :
        MicSettled(i, outcome) /\ UNCHANGED <<dsVars, wsVars, appVars>>

addModuleSettled ==
    \E i \in 1..MaxStarts, outcome \in {"module", "node", "source", "started"} :
        ModuleSettled(i, outcome) /\ UNCHANGED <<dsVars, wsVars, appVars>>

workletPost ==
    \E i \in 1..MaxStarts : WorkletPost(i) /\ UNCHANGED <<dsVars, wsVars, appVars>>

portMessage ==
    \E i \in 1..MaxStarts : HookPortMessage(i) /\ UNCHANGED <<dsVars, wsVars, appVars>>

NextCapture ==
    \/ startCapture
    \/ stopCapture
    \/ getUserMediaSettled
    \/ addModuleSettled
    \/ workletPost
    \/ portMessage

SpecCapture == InitCapture /\ [][NextCapture]_vars

(***************************************************************************)
(* useVoiceWebSocket                                                       *)
(***************************************************************************)
Callback(name, arg) == [cb |-> name, arg |-> arg]

\* updateConnectionState(state): setConnectionState + onConnectionChange
StateChange(state) == Callback("onConnectionChange", state)

\* Record the operation just run.  row is the socket concerned when the
\* operation is connect(), or the open event of the socket the connect() just
\* before it concerned; 0 otherwise.  again: this is a connect() made while
\* row # 0.
Op(name, sock) ==
    [name |-> name, sock |-> sock,
     row  |-> IF name = "connect" \/ (name = "open" /\ lastOp.name = "connect"
                                                    /\ lastOp.sock = sock)
              THEN sock ELSE 0,
     again |-> (name = "connect" /\ lastOp.row # 0),
     dispatch |-> NoDispatch]

ReadyState(ref) == IF ref = 0 THEN "NONE" ELSE sockets[ref]

\* the connect guard testing OPEN only
IsOpenOnly(ref) == ReadyState(ref) = "OPEN"

\* wsRef.current?.readyState === OPEN || ... === CONNECTING
IsOpenOrConnecting(ref) == ReadyState(ref) \in {"OPEN", "CONNECTING"}

\* a send guard that only tests for a socket
IsPresent(ref) == ref # 0

\* wsRef.current?.readyState === WebSocket.OPEN
IsOpen(ref) == ReadyState(ref) = "OPEN"

\* ws.close(): a CONNECTING or OPEN socket starts closing; a CLOSING or
\* CLOSED one is left as it is
AfterClose(rs) == IF rs \in {"CONNECTING", "OPEN"} THEN "CLOSING" ELSE rs

\* The callbacks each operation and socket handler invokes, in call order
ConnectCallbacks(ctorThrows) ==
    IF IsOpenOrConnecting(wsRef) THEN <<>>
    ELSE IF ctorThrows
    THEN <<StateChange("connecting"), StateChange("error"),
           Callback("onError", "Failed to connect to voice server")>>
    ELSE <<StateChange("connecting")>>

DisconnectCallbacks == <<StateChange("disconnected")>>

OpenCallbacks == <<StateChange("connected")>>

ErrorCallbacks ==
    <<StateChange("error"), Callback("onError", "WebSocket connection error")>>

CloseCallbacks == <<StateChange("disconnected")>>

\* ws.onmessage without the instanceof Blob test: every payload goes to
\* JSON.parse, which rejects a Blob
MessageCallbacksParseAll(payload) ==
    IF payload \in {"binary", "malformed"} THEN <<>>
    ELSE <<Callback("onMessage", payload)>>

MessageCallbacks(payload) ==
    IF payload = "binary" THEN <<Callback("onAudio", payload)>>
    ELSE IF payload = "malformed" THEN <<>>
    ELSE <<Callback("onMessage", payload)>>

\* The kind of an inbound payload: a Blob, or text that JSON.parse accepts
\* ("json") or rejects ("malformed")
PayloadKind(payload) ==
    IF payload \in {"binary", "malformed"} THEN payload ELSE "json"

\* What ws.onmessage did with a payload.  parsed: JSON.parse was called;
\* cbs: the callbacks invoked; caught: the catch block ran (JSON.parse
\* threw, or onMessage threw inside the try).  cbThrows: the event callback
\* throws on the parsed value.
Dispatch(payload, cbThrows) ==
    [kind   |-> PayloadKind(payload),
     parsed |-> payload # "binary",
     cbs    |-> MessageCallbacks(payload),
     caught |-> payload = "malformed" \/ (payload # "binary" /\ cbThrows)]

\* connect() when the guard lets it through; ctorThrows: new WebSocket throws
ConnectBody(ctorThrows) ==
    IF ctorThrows
    THEN /\ connectionState' = "error"
         /\ lastOp' = Op("connect", 0)
         /\ UNCHANGED <<sockets, wsRef>>
    ELSE /\ sockets' = Append(sockets, "CONNECTING")
         /\ wsRef' = Len(sockets) + 1
         /\ connectionState' = "connecting"
         /\ lastOp' = Op("connect", Len(sockets) + 1)

HookConnect(ctorThrows) ==
    /\ dispatching = 0
    /\ IF IsOpenOrConnecting(wsRef)
       THEN /\ ~ctorThrows
            /\ lastOp' = Op("connect", wsRef)
            /\ UNCHANGED <<sockets, wsRef, connectionState>>
       ELSE /\ ctorThrows \/ Len(sockets) < MaxSockets
            /\ ConnectBody(ctorThrows)
    /\ UNCHANGED <<reconnectTimeoutRef, dispatching, transmitted, dropped,
                   sendCalls, raised>>

HookDisconnect ==
    /\ dispatching = 0
    /\ IF wsRef # 0
       THEN sockets' = [sockets EXCEPT ![wsRef] = AfterClose(@)]
       ELSE UNCHANGED sockets
    /\ wsRef' = 0
    /\ reconnectTimeoutRef' = FALSE
    /\ connectionState' = "disconnected"
    /\ lastOp' = Op("disconnect", wsRef)
    /\ UNCHANGED <<dispatching, transmitted, dropped, sendCalls, raised>>

\* WebSocket.send: the payload goes on the wire when the socket is OPEN, the
\* call throws InvalidStateError when it is CONNECTING, and the payload is
\* discarded when it is CLOSING or CLOSED.
SendOutcome(rs) ==
    IF rs = "OPEN" THEN "wire" ELSE IF rs = "CONNECTING" THEN "throw" ELSE "discard"

\* sendAudio(audioData) / sendMessage(message)
HookSend(kind) ==
    /\ dispatching = 0
    /\ sendCalls < MaxSends
    /\ sendCalls' = sendCalls + 1
    /\ dropped' = IF connectionState = "connected" THEN dropped
                  ELSE dropped \cup {sendCalls + 1}
    /\ transmitted' =
          IF IsOpen(wsRef) /\ SendOutcome(ReadyState(wsRef)) = "wire"
          THEN Append(transmitted, [sock |-> wsRef, id |-> sendCalls + 1, kind |-> kind])
          ELSE transmitted
    /\ raised' = (IsOpen(wsRef) /\ SendOutcome(ReadyState(wsRef)) = "throw")
    /\ lastOp' = Op(kind, wsRef)
    /\ UNCHANGED <<sockets, wsRef, reconnectTimeoutRef, connectionState, dispatching>>

\* ws.onopen of socket s
HookOpenEvent(s) ==
    /\ dispatching = 0
    /\ s \in 1..Len(sockets)
    /\ sockets[s] = "CONNECTING"
    /\ sockets' = [sockets EXCEPT ![s] = "OPEN"]
    /\ connectionState' = "connected"
    /\ lastOp' = Op("open", s)
    /\ UNCHANGED <<wsRef, reconnectTimeoutRef, dispatching, transmitted, dropped,
                   sendCalls, raised>>

\* The connection of socket s failed (refused, lost, or closed by close()
\* before it was established): readyState becomes CLOSED and the error event
\* fires; the close event follows in the same task.
HookErrorEvent(s) ==
    /\ dispatching = 0
    /\ s \in 1..Len(sockets)
    /\ sockets[s] \in {"CONNECTING", "OPEN", "CLOSING"}
    /\ sockets' = [sockets EXCEPT ![s] = "CLOSED"]
    /\ connectionState' = "error"
    /\ dispatching' = s
    /\ lastOp' = Op("error", s)
    /\ UNCHANGED <<wsRef, reconnectTimeoutRef, transmitted, dropped, sendCalls, raised>>

\* an onclose that opens a replacement socket when the current one closed
HookCloseEventReconnecting(s) ==
    /\ s \in 1..Len(sockets)
    /\ \/ dispatching = s
       \/ dispatching = 0 /\ sockets[s] \in {"OPEN", "CLOSING"}
    /\ IF s = wsRef /\ Len(sockets) < MaxSockets
       THEN /\ sockets' = Append([sockets EXCEPT ![s] = "CLOSED"], "CONNECTING")
            /\ wsRef' = Len(sockets) + 1
       ELSE /\ sockets' = [sockets EXCEPT ![s] = "CLOSED"]
            /\ wsRef' = 0
    /\ connectionState' = "disconnected"
    /\ dispatching' = 0
    /\ lastOp' = Op("close", s)
    /\ UNCHANGED <<reconnectTimeoutRef, transmitted, dropped, sendCalls, raised>>

\* ws.onclose of socket s: after its error event, or on a clean close of an
\* OPEN or CLOSING socket
HookCloseEvent(s) ==
    /\ s \in 1..Len(sockets)
    /\ \/ dispatching = s
       \/ dispatching = 0 /\ sockets[s] \in {"OPEN", "CLOSING"}
    /\ sockets' = [sockets EXCEPT ![s] = "CLOSED"]
    /\ connectionState' = "disconnected"
    /\ wsRef' = 0
    /\ dispatching' = 0
    /\ lastOp' = Op("close", s)
    /\ UNCHANGED <<reconnectTimeoutRef, transmitted, dropped, sendCalls, raised>>

\* ws.onmessage of socket s (message events are delivered only while the
\* socket is OPEN).  payload: "binary" (a Blob), "malformed" (text that
\* JSON.parse rejects), or the name of the event of a parsed JSON object.
HookMessageEvent(s, payload, cbThrows) ==
    /\ dispatching = 0
    /\ s \in 1..Len(sockets)
    /\ sockets[s] = "OPEN"
    /\ payload \in Payloads
    /\ cbThrows => PayloadKind(payload) = "json"
    /\ lastOp' = [Op("message", s) EXCEPT !.dispatch = Dispatch(payload, cbThrows)]
    /\ UNCHANGED <<sockets, wsRef, reconnectTimeoutRef, connectionState,
                   dispatching, transmitted, dropped, sendCalls, raised>>

(***************************************************************************)
(* SpecVoice: the hook under an arbitrary caller                           *)
(***************************************************************************)
InitVoice == dsIdle /\ accInit /\ wsInit /\ appInit /\ capInit

connect == \E ctorThrows \in BOOLEAN : HookConnect(ctorThrows) /\ UNCHANGED <<dsVars, accVars, appVars, capVars>>

disconnect == HookDisconnect /\ UNCHANGED <<dsVars, accVars, appVars, capVars>>

sendAudio == HookSend("sendAudio") /\ UNCHANGED <<dsVars, accVars, appVars, capVars>>

sendMessage == HookSend("sendMessage") /\ UNCHANGED <<dsVars, accVars, appVars, capVars>>

onopen == \E s \in 1..MaxSockets : HookOpenEvent(s) /\ UNCHANGED <<dsVars, accVars, appVars, capVars>>

onerror == \E s \in 1..MaxSockets : HookErrorEvent(s) /\ UNCHANGED <<dsVars, accVars, appVars, capVars>>

onclose == \E s \in 1..MaxSockets : HookCloseEvent(s) /\ UNCHANGED <<dsVars, accVars, appVars, capVars>>

onmessage ==
    \E s \in 1..MaxSockets, payload \in HookPayloads, cbThrows \in BOOLEAN :
        HookMessageEvent(s, payload, cbThrows) /\ UNCHANGED <<dsVars, accVars, appVars, capVars>>

NextVoice ==
    \/ connect
    \/ disconnect
    \/ sendAudio
    \/ sendMessage
    \/ onopen
    \/ onerror
    \/ onclose
    \/ onmessage

SpecVoice == InitVoice /\ [][NextVoice]_vars

(***************************************************************************)
(* App: callbacks handed to useVoiceWebSocket                              *)
(***************************************************************************)
\* ready handled as a readiness flag only, the orb left as it is
OnReadyFlagOnly(a) == [a EXCEPT !.voiceReady = TRUE]

\* event.event === 'ready'
OnReady(a) == [a EXCEPT !.voiceReady = TRUE, !.orbState = "idle"]

\* onMessage whose voice_mode_stop branch leaves voice mode on and whose
\* response branch only completes a thinking orb
OnMessageGuarded(a, ev) ==
    CASE ev = "loading"            -> [a EXCEPT !.orbState = "thinking", !.voiceReady = FALSE]
      [] ev = "ready"              -> OnReady(a)
      [] ev = "wake_word_detected" -> [a EXCEPT !.orbState = "recording"]
      [] ev = "listening"          -> [a EXCEPT !.orbState = "recording"]
      [] ev = "transcript"         -> [a EXCEPT !.orbState = "thinking"]
      [] ev = "songs_mood"         -> [a EXCEPT !.moodAnalysis = TRUE]
      [] ev = "response"           ->
            IF a.orbState = "thinking" THEN [a EXCEPT !.orbState = "complete"] ELSE a
      [] ev = "interrupted"        -> [a EXCEPT !.orbState = "idle"]
      [] ev = "voice_mode_stop"    -> [a EXCEPT !.orbState = "idle"]
      [] ev = "idle_timeout"       -> [a EXCEPT !.orbState = "idle"]
      [] OTHER                     -> a

\* onMessage(event)
OnMessage(a, ev) ==
    CASE ev = "loading"            -> [a EXCEPT !.orbState = "thinking", !.voiceReady = FALSE]
      [] ev = "ready"              -> OnReady(a)
      [] ev = "wake_word_detected" -> [a EXCEPT !.orbState = "recording"]
      [] ev = "listening"          -> [a EXCEPT !.orbState = "recording"]
      [] ev = "transcript"         -> [a EXCEPT !.orbState = "thinking"]
      [] ev = "songs"              -> a
      [] ev = "songs_mood"         -> [a EXCEPT !.moodAnalysis = TRUE]
      [] ev = "response"           -> [a EXCEPT !.orbState = "complete"]
      [] ev = "interrupted"        -> [a EXCEPT !.orbState = "idle"]
      [] ev = "voice_mode_stop"    -> [a EXCEPT !.voiceMode = FALSE, !.orbState = "idle"]
      [] ev = "idle_timeout"       -> [a EXCEPT !.orbState = "idle"]
      [] OTHER                     -> a

\* onError(error)
OnError(a) ==
    [a EXCEPT !.voiceMode = FALSE, !.voiceReady = FALSE, !.orbState = "idle"]

\* onConnectionChange(state)
OnConnectionChange(a, state) ==
    IF state = "error"
    THEN [a EXCEPT !.voiceMode = FALSE, !.voiceReady = FALSE, !.orbState = "idle"]
    ELSE IF state = "disconnected" THEN [a EXCEPT !.voiceReady = FALSE]
    ELSE a

ApplyCallback(a, c) ==
    CASE c.cb = "onMessage"          -> OnMessage(a, c.arg)
      [] c.cb = "onError"            -> OnError(a)
      [] c.cb = "onConnectionChange" -> OnConnectionChange(a, c.arg)
      [] OTHER                       -> a

\* the state updates of the callbacks a hook operation invoked, in call order
RECURSIVE ApplyCallbacks(_, _)
ApplyCallbacks(a, cbs) ==
    IF cbs = <<>> THEN a
    ELSE ApplyCallbacks(ApplyCallback(a, Head(cbs)), Tail(cbs))

\* setMoodAnalysis(event.mood_analysis) stores a new object
StoresNewMood(cbs) ==
    \E i \in 1..Len(cbs) : cbs[i] = Callback("onMessage", "songs_mood")

(***************************************************************************)
(* App: effects                                                            *)
(***************************************************************************)
\* Effects whose dependency arrays differ between two renders:
\*   orb effect        [recordingState, isLoading, moodAnalysis, voiceMode]
\*   voice-mode effect [voiceMode, connect, disconnect]
\*   capture effect    [voiceReady, startCapture, stopCapture]
\* (startCapture changes with isCapturing: see CaptureDeps)
ChangedDeps(a, b) ==
    (IF \/ a.recordingState # b.recordingState
        \/ a.isLoading # b.isLoading
        \/ a.moodAnalysis # b.moodAnalysis
        \/ a.voiceMode # b.voiceMode
     THEN {"orb"} ELSE {})
    \cup (IF a.voiceMode # b.voiceMode THEN {"voiceMode"} ELSE {})
    \cup (IF a.voiceReady # b.voiceReady THEN {"capture"} ELSE {})

\* startCapture is a useCallback over [isCapturing, ...]: the capture effect
\* runs again when this step changes isCapturing
CaptureDeps == IF isCapturing' # isCapturing THEN {"capture"} ELSE {}

\* useAudioCapture onError: setError(...); setVoiceMode(false)
OnCaptureError(a) == [a EXCEPT !.voiceMode = FALSE]

\* the orb effect without its voice-mode early return
OrbEffectSetNoVoiceGuard(a) ==
    IF a.recordingState = "recording" THEN "recording"
    ELSE IF a.recordingState = "transcribing" \/ a.isLoading THEN "thinking"
    ELSE IF a.moodAnalysis /\ a.orbState = "thinking" THEN "complete"
    ELSE IF a.orbState # "complete" THEN "idle"
    ELSE "keep"

\* the orb effect without its complete branch
OrbEffectSetNoComplete(a) ==
    IF a.voiceMode THEN "keep"
    ELSE IF a.recordingState = "recording" THEN "recording"
    ELSE IF a.recordingState = "transcribing" \/ a.isLoading THEN "thinking"
    ELSE IF a.orbState # "complete" THEN "idle"
    ELSE "keep"

\* The orb effect: the value it passes to setOrbState, "keep" when it calls
\* no setter
OrbEffectSet(a) ==
    IF a.voiceMode THEN "keep"
    ELSE IF a.recordingState = "recording" THEN "recording"
    ELSE IF a.recordingState = "transcribing" \/ a.isLoading THEN "thinking"
    ELSE IF a.moodAnalysis /\ a.orbState = "thinking" THEN "complete"
    ELSE IF a.orbState # "complete" THEN "idle"
    ELSE "keep"

\* The orb effect arms the 1.5 s timeout in its complete branch
OrbEffectArms(a) ==
    /\ ~a.voiceMode
    /\ a.recordingState = "idle"
    /\ ~a.isLoading
    /\ a.moodAnalysis
    /\ a.orbState = "thinking"

\* the orb effect run again without the cleanup of its previous run
OrbEffectTimerNoCleanup(a, armed) == armed \/ OrbEffectArms(a)

\* The timeout after the orb effect ran again: the cleanup of its previous
\* run clears the timeout (armed: it was armed), then the effect arms a new
\* one in its complete branch only
OrbEffectTimer(a, armed) == OrbEffectArms(a)

SetOrb(a, value) == IF value = "keep" THEN a ELSE [a EXCEPT !.orbState = value]

\* the voice-mode effect without the setOrbState('idle') of its else branch
VoiceModeEffectSetOnOnly(a) == IF a.voiceMode THEN "thinking" ELSE "keep"

\* The voice-mode effect: the value it passes to setOrbState after connect()
\* or disconnect()
VoiceModeEffectSet(a) == IF a.voiceMode THEN "thinking" ELSE "idle"

\* A handler ran: its state updates are rendered and the effects whose
\* dependencies changed become pending
Commit(newApp, newObject) ==
    /\ app' = newApp
    /\ pending' = pending \cup ChangedDeps(app, newApp)
                          \cup (IF newObject THEN {"orb"} ELSE {})

\* no effect is waiting to run and no event dispatch is in progress
Settled == pending = {} /\ dispatching = 0

(***************************************************************************)
(* Scenario monitors                                                       *)
(***************************************************************************)
Scenario8 == <<"loading", "ready", "wake_word_detected", "transcript", "response">>

\* scen8: -1 outside the scenario; 0 once the voice-mode effect has called
\* connect() and shown the loading state; k after the first k events of
\* Scenario8 arrived on the current socket with nothing else in between
Scen8Msg(s, payload) ==
    IF scen8 >= 0 /\ scen8 < Len(Scenario8) /\ s = wsRef /\ payload = Scenario8[scen8 + 1]
    THEN scen8 + 1 ELSE -1

\* scen9: 0 outside the scenario; 2 once recording started from the idle
\* push-to-talk state; 3 after the recording was stopped; 4 after the
\* transcription finished with a mood analysis stored; 5 after the timeout
Scen9Base ==
    /\ ~app.voiceMode
    /\ app.recordingState = "idle"
    /\ ~app.isLoading
    /\ app.orbState = "idle"

OffScenario == scen8' = -1 /\ scen9' = 0

(***************************************************************************)
(* SpecApp: the assembled client under its user controls and socket       *)
(* events.  The capture effect runs with the other effects; the            *)
(* continuations of the startCapture calls it makes are taken in           *)
(* SpecWiring.                                                             *)
(***************************************************************************)
InitApp == dsIdle /\ accInit /\ wsInit /\ appInit /\ capInit

\* onClick={() => setVoiceMode(!voiceMode)}
ToggleVoiceMode ==
    /\ trigger' = "none"
    /\ Settled
    /\ app.voiceMode \/ Len(sockets) < MaxAppSockets
    /\ Commit([app EXCEPT !.voiceMode = ~app.voiceMode], FALSE)
    /\ OffScenario
    /\ UNCHANGED <<timer, micRequest, dsVars, accVars, wsVars, capVars>>

\* AIOrb button: disabled={disabled || state === 'thinking'}, disabled={isLoading}
OrbEnabled == ~app.isLoading /\ app.orbState # "thinking"

\* AudioRecorder.handleClick with recordingState idle: startRecording() asks
\* for the microphone
RecorderClickStart ==
    /\ trigger' = "none"
    /\ Settled
    /\ OrbEnabled
    /\ app.recordingState = "idle"
    /\ ~micRequest
    /\ micRequest' = TRUE
    /\ UNCHANGED <<app, timer, pending, scen8, scen9, dsVars, accVars, wsVars, capVars>>

\* getUserMedia resolved: mediaRecorder.start(); setRecordingState('recording')
RecorderMicGranted ==
    /\ trigger' = "none"
    /\ Settled
    /\ micRequest
    /\ micRequest' = FALSE
    /\ Commit([app EXCEPT !.recordingState = "recording"], FALSE)
    /\ scen9' = IF Scen9Base THEN 2 ELSE 0
    /\ scen8' = -1
    /\ UNCHANGED <<timer, dsVars, accVars, wsVars, capVars>>

\* getUserMedia rejected: onError(...)
RecorderMicDenied ==
    /\ trigger' = "none"
    /\ Settled
    /\ micRequest
    /\ micRequest' = FALSE
    /\ OffScenario
    /\ UNCHANGED <<app, timer, pending, dsVars, accVars, wsVars, capVars>>

\* AudioRecorder.handleClick with recordingState recording: stopRecording()
RecorderClickStop ==
    /\ trigger' = "none"
    /\ Settled
    /\ OrbEnabled
    /\ app.recordingState = "recording"
    /\ Commit([app EXCEPT !.recordingState = "transcribing"], FALSE)
    /\ scen9' = IF scen9 = 2 THEN 3 ELSE 0
    /\ scen8' = -1
    /\ UNCHANGED <<timer, micRequest, dsVars, accVars, wsVars, capVars>>

\* handleTranscription settled (transcript received or failed): finally
\* setRecordingState('idle')
TranscriptionDone ==
    /\ trigger' = "none"
    /\ Settled
    /\ app.recordingState = "transcribing"
    /\ Commit([app EXCEPT !.recordingState = "idle"], FALSE)
    /\ scen9' = IF scen9 = 3 /\ app.moodAnalysis THEN 4 ELSE 0
    /\ scen8' = -1
    /\ UNCHANGED <<timer, micRequest, dsVars, accVars, wsVars, capVars>>

\* handleSubmit up to the await
SubmitBegin ==
    /\ trigger' = "none"
    /\ Settled
    /\ ~app.isLoading
    /\ Commit([app EXCEPT !.isLoading = TRUE, !.moodAnalysis = FALSE], FALSE)
    /\ OffScenario
    /\ UNCHANGED <<timer, micRequest, dsVars, accVars, wsVars, capVars>>

\* handleSubmit after the await: the response arrived (ok) or the call threw
SubmitEnd(ok) ==
    /\ trigger' = IF ok THEN "result" ELSE "none"
    /\ Settled
    /\ app.isLoading
    /\ Commit([app EXCEPT !.isLoading = FALSE,
                          !.moodAnalysis = IF ok THEN TRUE ELSE @], FALSE)
    /\ OffScenario
    /\ UNCHANGED <<timer, micRequest, dsVars, accVars, wsVars, capVars>>

\* setTimeout(() => setOrbState('idle'), 1500) fires
TimerFire ==
    /\ trigger' = "none"
    /\ Settled
    /\ timer
    /\ timer' = FALSE
    /\ Commit([app EXCEPT !.orbState = "idle"], FALSE)
    /\ scen9' = IF scen9 = 4 THEN 5 ELSE 0
    /\ scen8' = -1
    /\ UNCHANGED <<micRequest, dsVars, accVars, wsVars, capVars>>

\* The pending effects run, in source order: the orb effect (after the
\* cleanup of its previous run, which clears the timeout), then the
\* voice-mode effect, then the capture effect.  Every effect reads the state of the render it belongs
\* to; the setter calls are applied in call order.
FlushEffects ==
    /\ pending # {}
    /\ dispatching = 0
    /\ IF "capture" \in pending
       THEN IF app.voiceReady THEN HookStartCapture ELSE HookStopCapture
       ELSE UNCHANGED <<accVars, capVars>>
    /\ \E ctorThrows \in BOOLEAN :
          /\ IF "voiceMode" \in pending
             THEN IF app.voiceMode THEN HookConnect(ctorThrows)
                  ELSE ~ctorThrows /\ HookDisconnect
             ELSE ~ctorThrows /\ UNCHANGED wsVars
          /\ LET a1 == IF "orb" \in pending THEN SetOrb(app, OrbEffectSet(app)) ELSE app
                 a2 == IF "voiceMode" \in pending
                       THEN SetOrb(ApplyCallbacks(a1, IF app.voiceMode
                                                      THEN ConnectCallbacks(ctorThrows)
                                                      ELSE DisconnectCallbacks),
                                   VoiceModeEffectSet(app))
                       ELSE a1
             IN  /\ app' = a2
                 /\ pending' = ChangedDeps(app, a2) \cup CaptureDeps
                 /\ scen8' = IF "voiceMode" \in pending
                             THEN IF a2.voiceMode /\ connectionState' = "connecting"
                                  THEN 0 ELSE -1
                             ELSE scen8
    /\ timer' = IF "orb" \in pending THEN OrbEffectTimer(app, timer) ELSE timer
    /\ trigger' = IF "voiceMode" \in pending /\ ~app.voiceMode
                  THEN "disconnect" ELSE "none"
    /\ scen9' = IF "voiceMode" \in pending THEN 0 ELSE scen9
    /\ UNCHANGED <<micRequest, dsVars>>

\* socket events, with the App callbacks the hook invokes
SocketOpen(s) ==
    /\ trigger' = "none"
    /\ pending = {}
    /\ HookOpenEvent(s)
    /\ Commit(ApplyCallbacks(app, OpenCallbacks), FALSE)
    /\ scen8' = scen8
    /\ scen9' = 0
    /\ UNCHANGED <<timer, micRequest, dsVars, accVars, capVars>>

SocketMessage(s, payload) ==
    /\ trigger' = IF StoresNewMood(MessageCallbacks(payload)) THEN "result" ELSE "none"
    /\ pending = {}
    /\ payload = "ready" => Len(starts) < MaxStarts
    /\ HookMessageEvent(s, payload, FALSE)
    /\ Commit(ApplyCallbacks(app, MessageCallbacks(payload)),
              StoresNewMood(MessageCallbacks(payload)))
    /\ scen8' = Scen8Msg(s, payload)
    /\ scen9' = 0
    /\ UNCHANGED <<timer, micRequest, dsVars, accVars, capVars>>

SocketError(s) ==
    /\ trigger' = "transport"
    /\ pending = {}
    /\ HookErrorEvent(s)
    /\ Commit(ApplyCallbacks(app, ErrorCallbacks), FALSE)
    /\ OffScenario
    /\ UNCHANGED <<timer, micRequest, dsVars, accVars, capVars>>

SocketClose(s) ==
    /\ trigger' = "transport"
    /\ pending = {} \/ dispatching = s
    /\ HookCloseEvent(s)
    /\ Commit(ApplyCallbacks(app, CloseCallbacks), FALSE)
    /\ OffScenario
    /\ UNCHANGED <<timer, micRequest, dsVars, accVars, capVars>>

\* a startCapture call resumes after one of its awaits; on failure the hook
\* invokes App's capture onError
CaptureMicSettled(i, outcome) ==
    /\ Settled
    /\ MicSettled(i, outcome)
    /\ LET a == IF outcome = "granted" THEN app ELSE OnCaptureError(app)
       IN  /\ app' = a
           /\ pending' = pending \cup ChangedDeps(app, a) \cup CaptureDeps
    /\ trigger' = IF outcome = "granted" THEN "none" ELSE "capture"
    /\ OffScenario
    /\ UNCHANGED <<timer, micRequest, dsVars, wsVars>>

CaptureModuleSettled(i, outcome) ==
    /\ Settled
    /\ ModuleSettled(i, outcome)
    /\ LET a == IF outcome = "started" THEN app ELSE OnCaptureError(app)
       IN  /\ app' = a
           /\ pending' = pending \cup ChangedDeps(app, a) \cup CaptureDeps
    /\ trigger' = IF outcome = "started" THEN "none" ELSE "capture"
    /\ OffScenario
    /\ UNCHANGED <<timer, micRequest, dsVars, wsVars>>

NextApp ==
    \/ ToggleVoiceMode
    \/ RecorderClickStart
    \/ RecorderMicGranted
    \/ RecorderMicDenied
    \/ RecorderClickStop
    \/ TranscriptionDone
    \/ SubmitBegin
    \/ \E ok \in BOOLEAN : SubmitEnd(ok)
    \/ TimerFire
    \/ FlushEffects
    \/ \E s \in 1..MaxSockets : SocketOpen(s)
    \/ \E s \in 1..MaxSockets, payload \in Payloads : SocketMessage(s, payload)
    \/ \E s \in 1..MaxSockets : SocketError(s)
    \/ \E s \in 1..MaxSockets : SocketClose(s)

SpecApp == InitApp /\ [][NextApp]_vars

(***************************************************************************)
(* SpecFallback: the client under the voice toggle, the recorder and the   *)
(* socket events, with fairness: React runs the pending effects after      *)
(* every render, and the close event of a failed socket follows its error  *)
(* event in the same task                                                  *)
(***************************************************************************)
NextFallback ==
    \/ ToggleVoiceMode
    \/ RecorderClickStart
    \/ RecorderMicGranted
    \/ RecorderMicDenied
    \/ RecorderClickStop
    \/ TranscriptionDone
    \/ FlushEffects
    \/ \E s \in 1..MaxSockets : SocketOpen(s)
    \/ \E s \in 1..MaxSockets, payload \in WiringPayloads : SocketMessage(s, payload)
    \/ \E s \in 1..MaxSockets : SocketError(s)
    \/ \E s \in 1..MaxSockets : SocketClose(s)

SpecFallback ==
    /\ InitApp
    /\ [][NextFallback]_vars
    /\ WF_vars(FlushEffects)
    /\ WF_vars(\E s \in 1..MaxSockets : SocketClose(s))

(***************************************************************************)
(* SpecWiring: the voice-mode wiring of App (voice toggle, socket events,  *)
(* capture effect and the continuations of startCapture), with the         *)
(* push-to-talk controls left alone                                        *)
(***************************************************************************)
NextWiring ==
    \/ ToggleVoiceMode
    \/ FlushEffects
    \/ \E s \in 1..MaxSockets : SocketOpen(s)
    \/ \E s \in 1..MaxSockets, payload \in WiringPayloads : SocketMessage(s, payload)
    \/ \E s \in 1..MaxSockets : SocketError(s)
    \/ \E s \in 1..MaxSockets : SocketClose(s)
    \/ \E i \in 1..MaxStarts, outcome \in {"denied", "granted"} :
          CaptureMicSettled(i, outcome)
    \/ \E i \in 1..MaxStarts, outcome \in {"module", "started"} :
          CaptureModuleSettled(i, outcome)

SpecWiring == InitApp /\ [][NextWiring]_vars

(***************************************************************************)
(* Properties of the interaction state                                     *)
(***************************************************************************)
\* C8 as stated: in continuous voice mode, from the state shown while models
\* load, the events loading, ready, wake_word_detected, transcript, response
\* yield the interaction states thinking, thinking, recording, thinking,
\* complete (ready leaves the state as it is).
C8_ReadyKeepsThinking ==
    /\ scen8 = 0 => app.orbState = "thinking"
    /\ scen8 >= 1 =>
          app.orbState = <<"thinking", "thinking", "recording", "thinking", "complete">>[scen8]

\* C8 amended: the same events yield thinking, idle, recording, thinking,
\* complete: ready sets the interaction state to idle.
C8_ReadyShowsIdle ==
    /\ scen8 = 0 => app.orbState = "thinking"
    /\ scen8 >= 1 =>
          app.orbState = <<"thinking", "idle", "recording", "thinking", "complete">>[scen8]

\* the whole event sequence has arrived
C8_Witness == scen8 = 5 /\ app.voiceMode /\ app.voiceReady

\* C9: in push-to-talk mode the recorder sequence idle, recording,
\* transcribing, idle, with a mood analysis stored at the last transition,
\* yields idle, recording, thinking, complete (with the timeout armed), and
\* the state is idle once the timeout has fired.
C9_PushToTalk ==
    pending = {} =>
        /\ scen9 = 2 => app.orbState = "recording"
        /\ scen9 = 3 => app.orbState = "thinking"
        /\ scen9 = 4 => app.orbState = "complete" /\ timer
        /\ scen9 = 5 => app.orbState = "idle" /\ ~timer

\* the push-to-talk scenario ran to the end
C9_Witness == scen9 = 5 /\ pending = {} /\ app.moodAnalysis /\ ~app.voiceMode

(***************************************************************************)
(* Properties of the capture path                                          *)
(***************************************************************************)
RECURSIVE Flatten(_)
Flatten(chunks) ==
    IF chunks = <<>> THEN <<>> ELSE Head(chunks) \o Flatten(Tail(chunks))

\* C1: after any sequence of processSamples calls on a freshly reset
\* accumulator whose batches total K samples, exactly floor(K/512) chunks
\* have been delivered and the carry-over holds K mod 512 samples, however
\* the K samples were split into batches.
C1_FrameCount ==
    /\ Len(delivered) = Len(fed) \div VAD_CHUNK_SIZE
    /\ Len(sampleAccumulator) = Len(fed) % VAD_CHUNK_SIZE

\* several calls, among them batches that cross chunk boundaries, with a
\* non-empty carry-over left
C1_Witness ==
    /\ calls = MaxCalls
    /\ Len(delivered) >= 3
    /\ Len(sampleAccumulator) > 0
    /\ Len(fed) % VAD_CHUNK_SIZE # Len(fed)

\* C2: the delivered chunks, concatenated in delivery order and followed by
\* the carry-over, are exactly the input batches concatenated in call order.
C2_Lossless == Flatten(delivered) \o sampleAccumulator = fed

C2_Witness ==
    /\ calls >= 2
    /\ Len(delivered) >= 2
    /\ Len(sampleAccumulator) > 0
    /\ lastPort.sampleRate = 44100

C4_EmptyIffEmpty ==
    dsPc = "returned" => (dsResult = <<>> <=> dsBuffer = <<>>)

\* C4 amended: the output of downsample is empty iff the input holds fewer
\* than Rs/16000 samples (N * 16000 < Rs), which includes the empty input.
C4_EmptyIffShort ==
    dsPc = "returned" =>
        (dsResult = <<>> <=> Len(dsBuffer) * TARGET_SAMPLE_RATE < dsRate)

\* a non-empty buffer that downsamples to nothing
C4_Witness ==
    /\ dsPc = "returned"
    /\ dsBuffer # <<>>
    /\ dsResult = <<>>

\* C10: on an empty carry-over, one 4096-sample port message at 48000 Hz is
\* downsampled to 1365 samples; processSamples delivers exactly 2 chunks of
\* 512 samples and leaves 341 samples in the carry-over.
C10_Scenario ==
    (/\ lastPort.rawLen = WorkletBufferSize
     /\ lastPort.sampleRate = ContextSampleRate
     /\ lastPort.accBefore = 0)
    => /\ lastPort.downLen = 1365
       /\ Len(delivered) = lastPort.chunksBefore + 2
       /\ \A c \in (lastPort.chunksBefore + 1)..Len(delivered) :
              Len(delivered[c]) = VAD_CHUNK_SIZE
       /\ Len(sampleAccumulator) = 341

C10_Witness ==
    /\ calls = 1
    /\ lastPort.rawLen = WorkletBufferSize
    /\ lastPort.sampleRate = ContextSampleRate
    /\ Len(delivered) = 2

(***************************************************************************)
(* Properties of the voice WebSocket hook                                  *)
(***************************************************************************)
LiveSockets == {s \in 1..Len(sockets) : sockets[s] \in {"CONNECTING", "OPEN"}}

\* this step is a connect() call
ConnectCalled == lastOp' # lastOp /\ lastOp'.name = "connect"

\* this step is a sendAudio / sendMessage call
SendCalled == sendCalls' # sendCalls

\* the last operation was connect(), or connect() followed by the open event
\* of the socket it created, and that socket is still CONNECTING or OPEN
AfterFirstConnect ==
    /\ lastOp.row # 0
    /\ sockets[lastOp.row] \in {"CONNECTING", "OPEN"}

\* C5: a connect() call made right after a connect() call whose socket is
\* still CONNECTING, or has opened, creates no socket and changes neither
\* the socket reference nor the connection state.
C5_SecondConnectNoOp ==
    [][(ConnectCalled /\ AfterFirstConnect)
        => /\ sockets' = sockets
           /\ wsRef' = wsRef
           /\ connectionState' = connectionState]_vars

\* connect() was called twice in a row and one socket exists
C5_Witness ==
    /\ lastOp.again
    /\ Len(sockets) = 1
    /\ wsRef = 1

\* C6: at most one socket created by the client is CONNECTING or OPEN.
C6_SingleLiveSocket == Cardinality(LiveSockets) <= 1

\* C7: sendAudio / sendMessage called while the connection state is not
\* connected transmit nothing, raise nothing and leave the hook's state
\* unchanged; no payload submitted while not connected is ever on the wire.
C7_DropWhenNotConnected ==
    [][/\ (SendCalled /\ connectionState # "connected")
          => /\ transmitted' = transmitted
             /\ ~raised'
             /\ UNCHANGED <<sockets, wsRef, connectionState, dispatching>>
       /\ \A i \in 1..Len(transmitted') : transmitted'[i].id \notin dropped']_vars

\* a payload was dropped while not connected, and a later one went out on a
\* connection opened afterwards
C7_Witness ==
    /\ dropped # {}
    /\ transmitted # <<>>
    /\ \E i \in 1..Len(transmitted) : \A d \in dropped : d < transmitted[i].id

\* the connection-state edges the state machine lists
ListedEdges ==
    {<<"disconnected", "connecting">>, <<"connecting", "connected">>,
     <<"connecting", "error">>, <<"connected", "error">>,
     <<"connected", "disconnected">>, <<"connecting", "disconnected">>,
     <<"error", "disconnected">>}

\* the states this step passes to updateConnectionState, in call order
ReportedStates ==
    IF ConnectCalled /\ lastOp'.sock = 0 THEN <<"connecting", "error">>
    ELSE IF connectionState' # connectionState THEN <<connectionState'>>
    ELSE <<>>

\* C11: every change of the reported connection state is one of the listed
\* edges: disconnected->connecting, connecting->connected,
\* connecting/connected->error, connected/connecting/error->disconnected.
C11_ListedEdgesOnly ==
    [][\A i \in 1..Len(ReportedStates) :
          LET from == IF i = 1 THEN connectionState ELSE ReportedStates[i - 1]
              to   == ReportedStates[i]
          IN  from # to => <<from, to>> \in ListedEdges]_vars

\* this step is the dispatch of an inbound message
MessageDispatched == lastOp' # lastOp /\ lastOp'.name = "message"

\* C12: an inbound message has exactly one outcome: a binary payload invokes
\* only the audio callback and is not parsed; text that parses invokes only
\* the event callback, once; text that fails to parse invokes no callback.
\* In every case, and when the event callback throws, the connection state
\* and the socket are unchanged.
C12_InboundDispatch ==
    [][MessageDispatched
        => /\ LET d == lastOp'.dispatch
              IN  CASE d.kind = "binary"    ->
                           Len(d.cbs) = 1 /\ d.cbs[1].cb = "onAudio" /\ ~d.parsed
                    [] d.kind = "json"      ->
                           Len(d.cbs) = 1 /\ d.cbs[1].cb = "onMessage"
                    [] d.kind = "malformed" -> d.cbs = <<>>
                    [] OTHER                -> FALSE
           /\ sockets' = sockets
           /\ wsRef' = wsRef
           /\ connectionState' = connectionState]_vars

\* the event callback threw on a parsed message and the socket is still the
\* open, current one
C12_Witness ==
    /\ lastOp.name = "message"
    /\ lastOp.dispatch.kind = "json"
    /\ lastOp.dispatch.caught
    /\ wsRef = lastOp.sock
    /\ sockets[lastOp.sock] = "OPEN"
    /\ connectionState = "connected"

\* C20: a socket is created only by a step that is a connect() call, never
\* by the hook itself after a transport error or close, and the reconnect
\* timer is never armed.
C20_NoAutoReconnect ==
    [][/\ Len(sockets') > Len(sockets) => ConnectCalled
       /\ ~reconnectTimeoutRef']_vars

\* the current socket failed and closed, and the hook is left without any
\* live socket
C20_Witness ==
    /\ lastOp.name = "close"
    /\ Len(sockets) >= 1
    /\ sockets[lastOp.sock] = "CLOSED"
    /\ LiveSockets = {}
    /\ wsRef = 0
    /\ connectionState = "disconnected"

(***************************************************************************)
(* Properties of the interaction state in continuous voice mode            *)
(***************************************************************************)
\* the interaction state each server event sets
EventOrbState ==
    [ev \in {"loading", "wake_word_detected", "listening", "transcript",
             "response", "interrupted", "idle_timeout", "voice_mode_stop"} |->
        CASE ev \in {"loading", "transcript"}            -> "thinking"
          [] ev \in {"wake_word_detected", "listening"}  -> "recording"
          [] ev = "response"                             -> "complete"
          [] OTHER                                       -> "idle"]

\* C13: while voice mode is on, a server event sets the interaction state
\* whatever it was before: loading and transcript -> thinking,
\* wake_word_detected and listening -> recording, response -> complete,
\* interrupted, idle_timeout and voice_mode_stop -> idle; voice_mode_stop
\* also turns voice mode off.
C13_EventSetsOrb ==
    [][(MessageDispatched /\ app.voiceMode)
        => \A ev \in DOMAIN EventOrbState :
              lastOp'.dispatch.cbs = <<Callback("onMessage", ev)>>
                 => /\ app'.orbState = EventOrbState[ev]
                    /\ ev = "voice_mode_stop" => ~app'.voiceMode]_vars

\* voice_mode_stop arrived while voice mode was on and the orb was not idle
C13_Witness ==
    /\ lastOp.name = "message"
    /\ lastOp.dispatch.cbs = <<Callback("onMessage", "voice_mode_stop")>>
    /\ "voiceMode" \in pending
    /\ ~app.voiceMode
    /\ app.orbState = "idle"
    /\ app.recordingState = "recording"

\* a push-to-talk input differs between the two renders of this step
PushToTalkInputsChanged ==
    \/ app'.recordingState # app.recordingState
    \/ app'.isLoading # app.isLoading
    \/ app'.moodAnalysis # app.moodAnalysis

\* this step runs the orb effect alone
OrbEffectRan == pending = {"orb"} /\ pending' = {}

\* C14: while voice mode is on, a change of the local recording state, the
\* loading flag or the stored mood analysis, and the run of the orb effect
\* that follows it, leave the interaction state unchanged.
C14_PushToTalkIgnored ==
    [][(app.voiceMode /\ app'.voiceMode /\ (PushToTalkInputsChanged \/ OrbEffectRan))
        => app'.orbState = app.orbState]_vars

\* voice mode is on, a local recording is running, its effect has run, and
\* the orb shows what the last server event set
C14_Witness ==
    /\ app.voiceMode
    /\ app.recordingState = "recording"
    /\ Settled
    /\ app.orbState = "complete"
    /\ lastOp.name = "message"

(***************************************************************************)
(* Properties of the capture hook                                          *)
(***************************************************************************)
\* the capture sessions: calls whose microphone stream is open and feeds a
\* connected worklet node in a running context
CaptureSessions == {i \in 1..Len(starts) : Feeding(i)}

\* startCapture calls still at one of their awaits
InFlight == {i \in 1..Len(starts) : starts[i].pc \in {"mic", "module"}}

\* C15: at most one capture session exists at any time, whatever the
\* interleaving of startCapture() and stopCapture(), a startCapture() made
\* while an earlier one is at an await included.
C15_SingleSession == Cardinality(CaptureSessions) <= 1

\* C16: once stopCapture() was the caller's last call and no startCapture()
\* is still in progress, no microphone stream, audio context or worklet
\* node is open.
C16_StopReleases ==
    (capOp.call = "stop" /\ InFlight = {})
    => \A i \in 1..Len(starts) :
          /\ starts[i].stream # "live"
          /\ starts[i].ctx # "running"
          /\ starts[i].node # "connected"

\* C17: when a startCapture() call has just failed, the error callback was
\* invoked, the hook is not capturing, and neither the stream nor the
\* context that call acquired is open.
C17_FailureReleases ==
    capOp.name = "failed"
    => /\ starts[capOp.inv].reported
       /\ ~isCapturing
       /\ starts[capOp.inv].stream # "live"
       /\ starts[capOp.inv].ctx # "running"

\* C18: when stopCapture() has just returned, the carry-over buffer is empty.
C18_StopClearsBuffer == capOp.name = "stop" => sampleAccumulator = <<>>

(***************************************************************************)
(* Properties of the assembled voice-mode wiring                           *)
(***************************************************************************)
\* the hook's connection as the caller sees it
Connection == <<sockets, wsRef, connectionState>>

ErrorInVoiceMode ==
    /\ lastOp.name = "error"
    /\ dispatching # 0
    /\ "voiceMode" \in pending

\* the client is back in push-to-talk mode and its effects have run
FellBack ==
    /\ Settled
    /\ ~app.voiceMode
    /\ ~app.voiceReady
    /\ connectionState = "disconnected"
    /\ app.orbState = "idle"

\* this step is the user's click on the voice toggle
UserToggled ==
    /\ Settled
    /\ app' = [app EXCEPT !.voiceMode = ~app.voiceMode]
    /\ UNCHANGED wsVars

\* C21: after a transport error reported while voice mode is on, the client
\* eventually has voice mode off, voice-ready false, the connection state
\* disconnected and the interaction state idle; voice mode comes back on
\* only by the user's toggle.
C21_FallsBack ==
    /\ ErrorInVoiceMode ~> FellBack
    /\ [][(~app.voiceMode /\ app'.voiceMode) => UserToggled]_vars

\* the error arrived during a local recording in voice mode, and its
\* handlers have run
C21_Witness ==
    /\ ErrorInVoiceMode
    /\ ~app.voiceMode
    /\ app.recordingState = "recording"
    /\ connectionState = "error"

(***************************************************************************)
(* Frame size                                                              *)
(***************************************************************************)
\* C22: every buffer handed to onAudioChunk holds exactly 512 samples (1024
\* bytes), whatever the batch sizes and source rates; a remainder shorter
\* than a frame stays in the accumulator and is never handed over.
C22_WholeFrames ==
    \A k \in 1..Len(delivered) :
        /\ Len(delivered[k]) = VAD_CHUNK_SIZE
        /\ ByteLength(delivered[k]) = 1024

C22_Witness ==
    /\ Len(delivered) >= 2
    /\ sampleAccumulator # <<>>
    /\ lastPort.sampleRate = 44100
    /\ calls >= 2

(***************************************************************************)
(* Push-to-talk mode                                                       *)
(***************************************************************************)
\* C23: with voice mode off and no effect pending, the interaction state is
\* recording whenever the local recording state is recording, and thinking
\* whenever it is transcribing.
C23_OrbFollowsRecorder ==
    (Settled /\ ~app.voiceMode) =>
        /\ app.recordingState = "recording" => app.orbState = "recording"
        /\ app.recordingState = "transcribing" => app.orbState = "thinking"

\* the pending effects run in push-to-talk mode
PushToTalkFlush == pending # {} /\ ~app.voiceMode /\ ~app'.voiceMode

\* C24: in push-to-talk mode the effects set the interaction state to
\* complete only when the render they belong to stored a new successful
\* result while the state was thinking; a thinking state left without a new
\* result becomes idle.
C24_CompleteOnNewResult ==
    [][PushToTalkFlush =>
          /\ (app.orbState # "complete" /\ app'.orbState = "complete")
                => (trigger = "result" /\ app.orbState = "thinking")
          /\ (app.orbState = "thinking" /\ app'.orbState # "thinking"
                                        /\ trigger # "result")
                => app'.orbState \in {"idle", "recording"}]_vars

(***************************************************************************)
(* Continuous voice mode has no client-side timer                          *)
(***************************************************************************)
\* a server event or a connection event of some socket
ServerOrConnectionEvent ==
    \E s \in 1..MaxSockets :
        \/ SocketOpen(s)
        \/ SocketError(s)
        \/ SocketClose(s)
        \/ \E payload \in Payloads : SocketMessage(s, payload)

\* C25: while voice mode is on, no timeout is armed once the effects have
\* run (one armed in push-to-talk mode was cleared when voice mode was
\* entered), the timeout never fires, and a complete interaction state
\* changes only in a server event, a connection event, or the effects of a
\* mode change.
C25_NoClientTimer ==
    /\ []((app.voiceMode /\ Settled) => ~timer)
    /\ [][app.voiceMode => ~TimerFire]_vars
    /\ [][(/\ app.voiceMode /\ app'.voiceMode
           /\ app.orbState = "complete" /\ app'.orbState # "complete")
             => (ServerOrConnectionEvent \/ "voiceMode" \in pending)]_vars

C25_Witness ==
    /\ app.voiceMode
    /\ Settled
    /\ app.orbState = "complete"
    /\ app.moodAnalysis
    /\ lastOp.name = "message"
    /\ ~timer

(***************************************************************************)
(* Capture and readiness                                                   *)
(***************************************************************************)
\* startCapture calls whose microphone stream is open
OpenStreams == {i \in 1..Len(starts) : starts[i].stream = "live"}

\* C26: once the pending effects have run, an open microphone stream or an
\* active capture session implies voiceReady, whatever the interleaving of
\* server events with the steps of startCapture().
C26_CaptureOnlyWhenReady ==
    (Settled /\ (OpenStreams # {} \/ CaptureSessions # {} \/ isCapturing))
        => app.voiceReady

(***************************************************************************)
(* Server events in push-to-talk mode                                      *)
(***************************************************************************)
\* a message event of some socket is handled
ServerEventHandled ==
    \E s \in 1..MaxSockets, payload \in Payloads : SocketMessage(s, payload)

\* C27: while voice mode is off, a server event leaves the interaction state
\* as it is.
C27_ServerEventsIgnored ==
    [][(~app.voiceMode /\ ServerEventHandled) => app'.orbState = app.orbState]_vars

(***************************************************************************)
(* Superseded sockets                                                      *)
(***************************************************************************)
\* C28: the reported connection state is connected only if wsRef holds a
\* socket and that socket is OPEN.
C28_ConnectedMeansOpen ==
    connectionState = "connected" => (wsRef # 0 /\ IsOpen(wsRef))

\* Socket s was dropped by disconnect() (nothing else calls close()) and its
\* error or close event is handled
DroppedSocketEvent(s) ==
    /\ sockets[s] = "CLOSING"
    /\ HookErrorEvent(s) \/ HookCloseEvent(s)

\* C29: an event of a socket dropped by disconnect() leaves the connection
\* state and the socket reference as they are, before and after the next
\* connect(), and invokes no error callback.
C29_DroppedSocketSilent ==
    [][\A s \in 1..Len(sockets) :
          DroppedSocketEvent(s) =>
              /\ connectionState' = connectionState
              /\ wsRef' = wsRef
              /\ lastOp'.name # "error"]_vars

(***************************************************************************)
(* Capture sessions and the frames they deliver                            *)
(***************************************************************************)
\* C30: once stopCapture() was the caller's last call and no session is
\* active, onAudioChunk is not invoked, port messages still in flight
\* included; and when a startCapture() call makes its session active the
\* carry-over buffer holds no sample of an earlier session.
C30_SessionsIsolated ==
    /\ [][(capOp.call = "stop" /\ CaptureSessions = {}) => delivered' = delivered]_vars
    /\ [](capOp.name = "started" => sampleAccumulator = <<>>)

====
